---- MODULE Spec2Model ----
(***************************************************************************)
(* ZKRun guest program (methods/guest/src/main.rs): one invocation reads a *)
(* CBOR-encoded RunInput, checks it against the run policy and commits a   *)
(* journal.  The Q32.32 geodesy is computed bit-exactly on 128-bit         *)
(* integers, which are represented here as little-endian sequences of      *)
(* base-256 limbs because the model checker's integers are 32 bits wide.   *)
(***************************************************************************)
EXTENDS Integers, Sequences, FiniteSets, TLC

\* ------------------------------------------------------------------------
\* 128-bit machine integers: NLimbs base-256 limbs, least significant
\* first.  Every operation is written limb by limb without recursion
\* (carry look-ahead), so that evaluation stays shallow.
\* ------------------------------------------------------------------------
Base == 256
NLimbs == 16
Idx == 1..NLimbs

\* materialise a limb function as a tuple
Limbs(f) == f \o <<>>

Zero == Limbs([p \in Idx |-> 0])

\* a machine-sized natural (below 2^31) as a wide integer
U(n) ==
  Limbs([p \in Idx |->
    CASE p = 1 -> n % Base
      [] p = 2 -> (n \div Base) % Base
      [] p = 3 -> (n \div (Base * Base)) % Base
      [] p = 4 -> n \div (Base * Base * Base)
      [] OTHER -> 0])

\* value of a wide integer known to be below 2^31
ToNat(a) == a[1] + Base * (a[2] + Base * (a[3] + Base * a[4]))

BLt(a, b) == \E j \in Idx : a[j] < b[j] /\ \A k \in (j + 1)..NLimbs : a[k] = b[k]
BLe(a, b) == ~BLt(b, a)

\* carry into limb p of a + b
CarryIn(a, b, p) ==
  \E j \in 1..(p - 1) :
     /\ a[j] + b[j] >= Base
     /\ \A k \in (j + 1)..(p - 1) : a[k] + b[k] = Base - 1

\* a + b, wrapping at 2^128
BAdd(a, b) ==
  Limbs([p \in Idx |-> (a[p] + b[p] + (IF CarryIn(a, b, p) THEN 1 ELSE 0)) % Base])

\* borrow from limb p in a - b
BorrowIn(a, b, p) ==
  \E j \in 1..(p - 1) :
     /\ a[j] < b[j]
     /\ \A k \in (j + 1)..(p - 1) : a[k] = b[k]

\* a - b, wrapping at 2^128
BSub(a, b) ==
  Limbs([p \in Idx |-> (a[p] - b[p] - (IF BorrowIn(a, b, p) THEN 1 ELSE 0) + Base) % Base])

\* a << (8 * k) and a >> (8 * k)
ShlLimbs(a, k) == Limbs([p \in Idx |-> IF p > k THEN a[p - k] ELSE 0])
ShrLimbs(a, k) == Limbs([p \in Idx |-> IF p + k <= NLimbs THEN a[p + k] ELSE 0])

Pow2(k) ==
  CASE k = 0 -> 1 [] k = 1 -> 2 [] k = 2 -> 4 [] k = 3 -> 8
    [] k = 4 -> 16 [] k = 5 -> 32 [] k = 6 -> 64 [] k = 7 -> 128 [] k = 8 -> 256

\* a << s and a >> s for s below 8
ShlBits(a, s) ==
  Limbs([p \in Idx |->
    ((a[p] * Pow2(s)) % Base) + (IF p > 1 THEN a[p - 1] \div Pow2(8 - s) ELSE 0)])
ShrBits(a, s) ==
  Limbs([p \in Idx |->
    (a[p] \div Pow2(s)) + (IF p < NLimbs THEN (a[p + 1] % Pow2(s)) * Pow2(8 - s) ELSE 0)])

Shl(a, k) == ShlBits(ShlLimbs(a, k \div 8), k % 8)
Shr(a, k) == ShrBits(ShrLimbs(a, k \div 8), k % 8)

\* column k of the schoolbook product
Prod(a, b, p, k) == IF p <= k THEN a[p] * b[k + 1 - p] ELSE 0
Column(a, b, k) ==
  (((Prod(a, b, 1, k) + Prod(a, b, 2, k)) + (Prod(a, b, 3, k) + Prod(a, b, 4, k)))
    + ((Prod(a, b, 5, k) + Prod(a, b, 6, k)) + (Prod(a, b, 7, k) + Prod(a, b, 8, k))))
  + (((Prod(a, b, 9, k) + Prod(a, b, 10, k)) + (Prod(a, b, 11, k) + Prod(a, b, 12, k)))
    + ((Prod(a, b, 13, k) + Prod(a, b, 14, k)) + (Prod(a, b, 15, k) + Prod(a, b, 16, k))))

\* the sum of the columns col[k] * Base^(k-1): every column is below
\* Base^3, and contributes its three base-256 digits to limbs k, k+1, k+2
SumColumns(col) ==
  BAdd(BAdd(Limbs([k \in Idx |-> col[k] % Base]),
            Limbs([k \in Idx |-> IF k >= 2 THEN (col[k - 1] \div Base) % Base ELSE 0])),
       Limbs([k \in Idx |-> IF k >= 3 THEN col[k - 2] \div (Base * Base) ELSE 0]))

\* a * b, wrapping at 2^128
BMul(a, b) == SumColumns(Limbs([k \in Idx |-> Column(a, b, k)]))

\* number of significant limbs
Width(a) == IF a = Zero THEN 0 ELSE CHOOSE n \in Idx : a[n] # 0 /\ \A k \in (n + 1)..NLimbs : a[k] = 0

\* remainder modulo m of the limbs of a above limb p (m at most 8 000 000)
RECURSIVE RemAbove(_, _, _)
RemAbove(a, p, m) ==
  IF p >= Width(a) THEN 0 ELSE (RemAbove(a, p + 1, m) * Base + a[p + 1]) % m

\* floor(a / m) for a machine-sized m at most 8 000 000
BDivSmall(a, m) ==
  Limbs([p \in Idx |-> ((RemAbove(a, p, m) * Base + a[p]) \div m) % Base])

\* ------------------------------------------------------------------------
\* Signed wide integers (i128): sign and magnitude; division truncates
\* toward zero as Rust's `/` does.
\* ------------------------------------------------------------------------
Pos(m) == [neg |-> FALSE, mag |-> m]
Sgn(n, m) == [neg |-> (n /\ m # Zero), mag |-> m]
SNeg(a) == Sgn(~a.neg, a.mag)

SAdd(a, b) ==
  IF a.neg = b.neg THEN Sgn(a.neg, BAdd(a.mag, b.mag))
  ELSE IF BLe(b.mag, a.mag) THEN Sgn(a.neg, BSub(a.mag, b.mag))
  ELSE Sgn(b.neg, BSub(b.mag, a.mag))

SSub(a, b) == SAdd(a, SNeg(b))
SMul(a, b) == Sgn(a.neg # b.neg, BMul(a.mag, b.mag))
SDivSmall(a, m) == Sgn(a.neg, BDivSmall(a.mag, m))
SShr(a, k) == Sgn(a.neg, Shr(a.mag, k))
SLt(a, b) ==
  IF a.neg # b.neg THEN a.neg
  ELSE IF a.neg THEN BLt(b.mag, a.mag) ELSE BLt(a.mag, b.mag)

\* an i32 as i128
I128(n) == IF n < 0 THEN Sgn(TRUE, U(-n)) ELSE Pos(U(n))

\* ------------------------------------------------------------------------
\* Fixed-point geodesy (main.rs:47-123)
\* ------------------------------------------------------------------------
\* Rust evaluates `let` statements in program order: a function with several
\* lets is written as a chain of operators, one per group of lets, each
\* taking the values bound so far; InOrder(lets, e) is e after the values
\* listed in lets have been computed
InOrder(lets, e) == IF Len(lets) >= 0 THEN e ELSE e

EARTH_RADIUS_M == 6371000
QBits == 32
\* Q = 1 << 32
Q == Pos(Shl(U(1), QBits))

\* (core::f64::consts::PI * (Q as f64)) as i128 = 13493037704
pi_q32 == Pos(BAdd(BMul(U(13493), U(1000000)), U(37704)))
\* (core::f64::consts::PI * 2.0 * (Q as f64)) as i128 = 26986075409
two_pi_q32 == Pos(BAdd(BMul(U(26986), U(1000000)), U(75409)))

\* (deg_q32 * pi_q32) / (180 * Q): shift by 32 bits, then divide by 180
RadOfDegQ32(deg_q32) ==
  InOrder(<<deg_q32>>, SDivSmall(SShr(SMul(deg_q32, pi_q32), QBits), 180))

deg_to_rad_q32(deg_micro) == RadOfDegQ32(SDivSmall(SMul(I128(deg_micro), Q), 1000000))

\* while x > pi { x -= two_pi; }
RECURSIVE WrapDown(_)
WrapDown(x) == IF SLt(pi_q32, x) THEN WrapDown(SSub(x, two_pi_q32)) ELSE x

\* while x < -pi { x += two_pi; }
RECURSIVE WrapUp(_)
WrapUp(x) == IF SLt(x, SNeg(pi_q32)) THEN WrapUp(SAdd(x, two_pi_q32)) ELSE x

wrap_pi_q32(x) == WrapUp(WrapDown(x))

q32_mul(a, b) == SShr(SMul(a, b), QBits)

\* term1 + term2 + term3 + term4
CosSum(term1, term2, term3, term4) ==
  InOrder(<<term1, term2, term3, term4>>, SAdd(SAdd(SAdd(term1, term2), term3), term4))

CosTerms(x2, x4, x6) ==
  InOrder(<<x6>>, CosSum(Q, SDivSmall(SNeg(x2), 2), SDivSmall(x4, 24), SDivSmall(SNeg(x6), 720)))

CosOfX4(x2, x4) == InOrder(<<x4>>, CosTerms(x2, x4, q32_mul(x4, x2)))
CosOfX2(x2) == InOrder(<<x2>>, CosOfX4(x2, q32_mul(x2, x2)))
CosOfWrapped(x) == InOrder(<<x>>, CosOfX2(q32_mul(x, x)))

q32_cos(x0) == CosOfWrapped(wrap_pi_q32(x0))

\* --- isqrt_u128 (main.rs:87-100) ---
TopBitShift == 126

\* while bit > x { bit >>= 2; }: after k iterations bit is the initial bit
\* shifted right by 2k, and the loop leaves at the first k with bit <= x
ShrinkTrips(bit, x) ==
  CHOOSE k \in 0..64 :
    /\ ~BLt(x, Shr(bit, 2 * k))
    /\ \A j \in 0..(k - 1) : BLt(x, Shr(bit, 2 * j))
IsqrtShrink(bit, x) == Shr(bit, 2 * ShrinkTrips(bit, x))

\* fault seeding: n > r + bit in place of n >= r + bit
IsqrtBody_Strict(st) ==
  IF BLt(BAdd(st.r, st.bit), st.n)
  THEN [n |-> BSub(st.n, BAdd(st.r, st.bit)),
        r |-> BAdd(Shr(st.r, 1), st.bit), bit |-> Shr(st.bit, 2)]
  ELSE [n |-> st.n, r |-> Shr(st.r, 1), bit |-> Shr(st.bit, 2)]

\* one iteration of `while bit != 0` on the loop state [n, r, bit]
IsqrtBody(st) ==
  IF BLe(BAdd(st.r, st.bit), st.n)
  THEN [n |-> BSub(st.n, BAdd(st.r, st.bit)),
        r |-> BAdd(Shr(st.r, 1), st.bit), bit |-> Shr(st.bit, 2)]
  ELSE [n |-> st.n, r |-> Shr(st.r, 1), bit |-> Shr(st.bit, 2)]

\* one pass of `while bit != 0 { ... }`: the body, or nothing once the loop is left
IsqrtPass(st) == IF st.bit # Zero THEN IsqrtBody(st) ELSE st

\* 2^k passes of the loop; bit is at most 2^126 and moves right by 2 in every
\* pass, so the loop is left within 2^6 passes
RECURSIVE IsqrtLoop(_, _)
IsqrtLoop(st, k) ==
  InOrder(<<st>>, IF k = 0 THEN IsqrtPass(st) ELSE IsqrtLoop(IsqrtLoop(st, k - 1), k - 1))

isqrt_u128(x) ==
  IF x = Zero THEN Zero
  ELSE IsqrtLoop([n |-> x, r |-> Zero, bit |-> IsqrtShrink(Shl(U(1), TopBitShift), x)], 6).r

\* --- distance_segment_meters (main.rs:102-123), from its last let to its first ---
\* if meters < 0 { 0 } else { meters as u64 }
MetersAsU64(meters) == IF meters.neg THEN 0 ELSE ToNat(meters.mag)

\* let meters = (EARTH_RADIUS_M as i128 * root_q32 as i128) / Q
DistanceOfRoot(root_q32) ==
  InOrder(<<root_q32>>, MetersAsU64(SShr(SMul(I128(EARTH_RADIUS_M), Pos(root_q32)), QBits)))

\* let sum_u = if sum < 0 { 0 } else { sum as u128 }; let root_q32 = isqrt_u128(sum_u * Q)
DistanceOfSum(sum) ==
  InOrder(<<sum>>, DistanceOfRoot(isqrt_u128(Shl(IF sum.neg THEN Zero ELSE sum.mag, QBits))))

\* let sum = x2 + y2
DistanceOfSquares(x2, y2) == InOrder(<<x2, y2>>, DistanceOfSum(SAdd(x2, y2)))

\* let x2 = q32_mul(x, x); let y2 = q32_mul(y, y)
DistanceOfXY(x, y) == InOrder(<<x, y>>, DistanceOfSquares(q32_mul(x, x), q32_mul(y, y)))

\* let x = q32_mul(dlam, cos_lat); let y = dphi
DistanceOfCos(dphi, dlam, cos_lat) ==
  InOrder(<<cos_lat>>, DistanceOfXY(q32_mul(dlam, cos_lat), dphi))

\* let cos_lat = q32_cos(lat_avg)
DistanceOfDeltas(dphi, dlam, lat_avg) ==
  InOrder(<<dphi, dlam, lat_avg>>, DistanceOfCos(dphi, dlam, q32_cos(lat_avg)))

\* let dphi = phi2 - phi1; let dlam = lam2 - lam1; let lat_avg = (phi1 + phi2) / 2
DistanceOfRadians(phi1, phi2, lam1, lam2) ==
  InOrder(<<phi1, phi2, lam1, lam2>>,
          DistanceOfDeltas(SSub(phi2, phi1), SSub(lam2, lam1), SDivSmall(SAdd(phi1, phi2), 2)))

distance_segment_meters(lat1, lon1, lat2, lon2) ==
  DistanceOfRadians(deg_to_rad_q32(lat1), deg_to_rad_q32(lat2),
                    deg_to_rad_q32(lon1), deg_to_rad_q32(lon2))

\* ------------------------------------------------------------------------
\* Cryptographic primitives of the k256 / sha2 / tiny_keccak crates, as
\* ideal functions on byte strings: digests are fixed-length and depend on
\* every input byte; a key pair has one public encoding and, for each
\* digest, one signature.
\* ------------------------------------------------------------------------
\* a residue that every byte of b[lo..hi] enters, halving the range
RECURSIVE MixBytes(_, _, _)
MixBytes(b, lo, hi) ==
  IF lo > hi THEN 0
  ELSE IF lo = hi THEN (b[lo] * (1 + (lo % 5))) % 251
  ELSE (MixBytes(b, lo, (lo + hi) \div 2) + 3 * MixBytes(b, (lo + hi) \div 2 + 1, hi)) % 251
SumBytes(b) == MixBytes(b, 1, Len(b))

\* Sha256::new().update(blob).finalize(): 32 bytes
Sha256(b) == [p \in 1..32 |-> (17 * Len(b) + 31 * SumBytes(b) + 7 * p) % 256]

\* Keccak::v256().update(bytes).finalize(out): 32 bytes
Keccak256(b) == [p \in 1..32 |-> (5 * Len(b) + 29 * SumBytes(b) + 13 * p) % 256]

\* the secp256k1 key pairs of the model
Keys == {1, 2}

\* uncompressed SEC1 encoding 0x04 || X || Y of the public key of pair k
PubKeyOf(k) == <<4>> \o [p \in 1..64 |-> (37 * k + 11 * p) % 256]

\* r || s of the signature of pair k over a digest
SignOf(k, digest) == [p \in 1..64 |-> (digest[((p - 1) % 32) + 1] + 53 * k + 3 * p) % 256]

\* EcdsaSignature::from_slice(&sig64).ok(): r and s must be nonzero scalars
SigParses(sig64) ==
  /\ \E p \in 1..32 : sig64[p] # 0
  /\ \E p \in 33..64 : sig64[p] # 0

\* VerifyingKey::from_sec1_bytes(pubkey).ok(): a tagged point on the curve
KeyParses(pubkey) == \E k \in Keys : pubkey = PubKeyOf(k)

\* fault seeding: the result of verify_digest ignored
VerifyDigest_Ignored(pubkey, digest, sig64) == TRUE

\* verify_key.verify_digest(digest, &signature).is_ok()
VerifyDigest(pubkey, digest, sig64) ==
  \E k \in Keys : pubkey = PubKeyOf(k) /\ sig64 = SignOf(k, digest)

None == <<>>

\* verify_signature (main.rs:125-150): the 20-byte address, or None
verify_signature(blob, sig, pubkey) ==
  IF Len(sig) # 65 THEN None
  ELSE IF Len(pubkey) # 65 THEN None
  ELSE LET digest == Sha256(blob)
           sig64 == SubSeq(sig, 1, 64)
       IN  IF ~SigParses(sig64) THEN None
           ELSE IF ~KeyParses(pubkey) THEN None
           ELSE IF ~VerifyDigest(pubkey, digest, sig64) THEN None
           ELSE SubSeq(Keccak256(Tail(pubkey)), 13, 32)

\* ------------------------------------------------------------------------
\* Unsigned machine arithmetic of main
\* ------------------------------------------------------------------------
U64_MAX == BSub(Shl(U(1), 64), U(1))
U32_MAX == BSub(Shl(U(1), 32), U(1))

\* a sum clamped to u64::MAX
Saturate(t) == IF BLt(U64_MAX, t) THEN U64_MAX ELSE t

\* u64::saturating_add
saturating_add(a, b) == Saturate(BAdd(a, b))

\* if elapsed > u32::MAX as u64 { u32::MAX } else { elapsed as u32 }
elapsed_u32(secs) ==
  IF BLt(U32_MAX, U(secs)) THEN U32_MAX ELSE U(secs)

\* fault seeding: the bytes in little-endian order
to_le_bytes(v) == <<v[1], v[2], v[3], v[4]>>

\* u32::to_be_bytes
to_be_bytes(v) == <<v[4], v[3], v[2], v[1]>>

\* ------------------------------------------------------------------------
\* Inputs
\* ------------------------------------------------------------------------
MaxSamples == 3
MaxRuns == 2

Coord(lat, lon) == [lat_microdeg |-> lat, lon_microdeg |-> lon]
\* three way points, at a latitude that wrap_pi_q32 has to bring back into
\* [-pi, pi]: P0 -> P2 measures 4999 m, P0 -> P1 1932 m and P1 -> P2 3068 m
P0 == Coord(400000000, -2000000)
P1 == Coord(400012367, -1984060)
P2 == Coord(400031800, -1958481)
Coords == {P0, P1, P2}

Sample(t, c) == [t |-> t, lat_microdeg |-> c.lat_microdeg, lon_microdeg |-> c.lon_microdeg]
\* the way points in order of time, and three samples out of that order
Samples ==
  { Sample(0, P0), Sample(161, P1), Sample(398, P2),
    Sample(0, P1), Sample(161, P2), Sample(398, P0) }

SeqsUpTo(S, n) == UNION {[1..k -> S] : k \in 0..n}
Traces == SeqsUpTo(Samples, MaxSamples)

GoodTrace == <<Sample(0, P0), Sample(161, P1), Sample(398, P2)>>
ShortTrace == <<Sample(0, P0), Sample(398, P2)>>

Blob1 == <<1>>
Blob2 == <<2, 3>>
Blobs == {Blob1, Blob2}

\* r || s || v of pair 1 over Blob1, recovery id 0
GoodSig == SignOf(1, Sha256(Blob1)) \o <<0>>
SigVariants ==
  { GoodSig,
    SubSeq(GoodSig, 1, 64),
    GoodSig \o <<0>>,
    [p \in 1..65 |-> 0],
    [p \in 1..65 |-> IF p <= 32 THEN GoodSig[p] ELSE 0] }
PubVariants == { PubKeyOf(1), PubKeyOf(2), SubSeq(PubKeyOf(1), 1, 64), Tail(PubKeyOf(1)) \o <<4>> }

RunInput(g, st, en, me, ms, b, sg, pk) ==
  [gps |-> g, start_time |-> st, end_time |-> en, max_elapsed_sec |-> me,
   max_speed_mps |-> ms, blob |-> b, sig |-> sg, pubkey |-> pk]

\* traces and policy limits under a valid signature
TraceInputs ==
  { RunInput(g, 0, 0, me, ms, Blob1, GoodSig, PubKeyOf(1)) :
      g \in Traces, me \in {397, 398}, ms \in {11, 12} }

\* shape and signature fields over a few traces
ShapeInputs ==
  { RunInput(g, w[1], w[2], 398, 12, c[1], c[2], c[3]) :
      g \in {<<>>, ShortTrace, GoodTrace},
      w \in {0, 1} \X {0, 1},
      c \in Blobs \X SigVariants \X PubVariants }

RunInputs == TraceInputs \cup ShapeInputs

\* an input buffer: the CBOR encoding of a RunInput, whole or truncated
Buffers ==
  {[decodes |-> TRUE, val |-> v] : v \in RunInputs}
    \cup {[decodes |-> FALSE, val |-> v] : v \in {RunInput(GoodTrace, 0, 0, 398, 12, Blob1, GoodSig, PubKeyOf(1))}}

\* the bits a re-submission may flip: (field, byte index, bit)
FlipBit(byte, bit) ==
  IF (byte \div Pow2(bit)) % 2 = 1 THEN byte - Pow2(bit) ELSE byte + Pow2(bit)
FlipAt(bytes, pos, bit) == [bytes EXCEPT ![pos] = FlipBit(bytes[pos], bit)]
Mutations ==
  {[field |-> f, byte |-> p, bit |-> b] : f \in {"sig", "pubkey"}, p \in {1, 33, 64, 65}, b \in {0, 7}}
NoMutation == [field |-> "none", byte |-> 0, bit |-> 0]

Mutate(v, m) ==
  IF m.field = "sig" THEN [v EXCEPT !.sig = FlipAt(v.sig, m.byte, m.bit)]
  ELSE [v EXCEPT !.pubkey = FlipAt(v.pubkey, m.byte, m.bit)]

\* segment distances, computed once for the way points of the model
DistTable ==
  [p \in Coords \X Coords |->
     distance_segment_meters(p[1].lat_microdeg, p[1].lon_microdeg,
                             p[2].lat_microdeg, p[2].lon_microdeg)] @@ <<>>
SegmentMeters(a, b) ==
  DistTable[<<Coord(a.lat_microdeg, a.lon_microdeg), Coord(b.lat_microdeg, b.lon_microdeg)>>]

\* ------------------------------------------------------------------------
\* The guest program as a state machine (main, main.rs:152-221)
\* ------------------------------------------------------------------------
MIN_DISTANCE_M == 5000

VARIABLES
  input,            \* the buffer env::read() returns, fixed for the invocation
  run_in,           \* the decoded RunInput
  pc,               \* position in main
  exit,             \* the return site taken, "" while running
  journal,          \* bytes committed by env::commit_slice in this invocation
  signer_addr, blob_hash, total_distance_m, last_t, i, elapsed,   \* locals of main
  fault,            \* arithmetic or indexing fault raised, "none" otherwise
  runs,             \* number of the current invocation
  prev_journal,     \* journal of the previous invocation
  mutation,         \* the bit flipped in the input before this invocation
  sq                \* isqrt_u128 run step by step

locals == <<signer_addr, blob_hash, total_distance_m, last_t, i, elapsed>>
vars == <<input, run_in, pc, exit, journal, signer_addr, blob_hash, total_distance_m,
          last_t, i, elapsed, fault, runs, prev_journal, mutation, sq>>

SqIdle == [pc |-> "idle", x |-> Zero, n |-> Zero, r |-> Zero, bit |-> Zero,
           shrinks |-> 0, iters |-> 0, overflow |-> FALSE]

Init ==
  /\ input \in Buffers
  /\ run_in = None
  /\ pc = "start"
  /\ exit = ""
  /\ journal = <<>>
  /\ signer_addr = <<>>
  /\ blob_hash = <<>>
  /\ total_distance_m = Zero
  /\ last_t = 0
  /\ i = 0
  /\ elapsed = 0
  /\ fault = "none"
  /\ runs = 1
  /\ prev_journal = <<>>
  /\ mutation = NoMutation
  /\ sq = SqIdle

\* fault seeding: a rejection record zero-filled to the accepted length
Reject_ZeroFilled(site) ==
  /\ journal' = journal \o [p \in 1..57 |-> 0]
  /\ pc' = "done"
  /\ exit' = site

\* env::commit_slice(&[0u8]); return;
Reject(site) ==
  /\ journal' = journal \o <<0>>
  /\ pc' = "done"
  /\ exit' = site

Goto(label) ==
  /\ pc' = label
  /\ UNCHANGED <<journal, exit>>

\* a panic: the invocation ends without a return
Panic(kind) ==
  /\ fault' = kind
  /\ pc' = "panic"
  /\ UNCHANGED <<journal, exit>>

env == <<input, runs, prev_journal, mutation, sq>>

\* main.rs:154-161
Decode ==
  /\ pc = "start"
  /\ IF input.decodes
     THEN run_in' = input.val /\ Goto("check_len")
     ELSE UNCHANGED run_in /\ Reject("L159")
  /\ UNCHANGED <<locals, fault, env>>

\* main.rs:164-167
LenOk(gps) == ~(Len(gps) < 2)

CheckLen ==
  /\ pc = "check_len"
  /\ IF LenOk(run_in.gps) THEN Goto("check_times") ELSE Reject("L166")
  /\ UNCHANGED <<run_in, locals, fault, env>>

\* fault seeding: the start_time <= end_time test left out
CheckTimes_Unchecked ==
  /\ pc = "check_times"
  /\ Goto("verify")
  /\ UNCHANGED <<run_in, locals, fault, env>>

\* main.rs:168-171
CheckTimes ==
  /\ pc = "check_times"
  /\ IF ~(run_in.start_time <= run_in.end_time) THEN Reject("L170") ELSE Goto("verify")
  /\ UNCHANGED <<run_in, locals, fault, env>>

\* main.rs:174-181
VerifySignature ==
  /\ pc = "verify"
  /\ LET a == verify_signature(run_in.blob, run_in.sig, run_in.pubkey)
     IN  IF a = None
         THEN Reject("L176") /\ UNCHANGED <<signer_addr, blob_hash>>
         ELSE /\ signer_addr' = a
              /\ blob_hash' = Sha256(run_in.blob)
              /\ Goto("walk_init")
  /\ UNCHANGED <<run_in, total_distance_m, last_t, i, elapsed, fault, env>>

\* fault seeding: total_distance_m not reset at the start of the walk
WalkInit_Stale ==
  /\ pc = "walk_init"
  /\ IF Len(run_in.gps) = 0
     THEN Panic("index") /\ UNCHANGED <<last_t, i>>
     ELSE /\ last_t' = run_in.gps[1].t
          /\ i' = 1
          /\ Goto("walk")
          /\ UNCHANGED fault
  /\ UNCHANGED <<run_in, signer_addr, blob_hash, total_distance_m, elapsed, env>>

\* main.rs:184-186
WalkInit ==
  /\ pc = "walk_init"
  /\ IF Len(run_in.gps) = 0
     THEN Panic("index") /\ UNCHANGED <<total_distance_m, last_t, i>>
     ELSE /\ total_distance_m' = Zero
          /\ last_t' = run_in.gps[1].t
          /\ i' = 1
          /\ Goto("walk")
          /\ UNCHANGED fault
  /\ UNCHANGED <<run_in, signer_addr, blob_hash, elapsed, env>>

\* fault seeding: the last window left out
Windows_Short(gps) == IF Len(gps) < 2 THEN 0 ELSE Len(gps) - 2

\* number of windows of gps.windows(2)
Windows(gps) == IF Len(gps) < 2 THEN 0 ELSE Len(gps) - 1

\* fault seeding: b.t >= a.t in place of b.t > a.t
TimeOrdered_Weak(a, b) == b.t >= a.t

\* if !(b.t > a.t) { reject }
TimeOrdered(a, b) == b.t > a.t

\* fault seeding: >= in place of >
TooFast_Inclusive(speed_mps, max_speed_mps) == speed_mps >= max_speed_mps

\* if speed_mps > (run_in.max_speed_mps as u64) { reject }
TooFast(speed_mps, max_speed_mps) == speed_mps > max_speed_mps

\* main.rs:186-201, one iteration of the loop over windows(2)
WalkStep ==
  /\ pc = "walk"
  /\ i <= Windows(run_in.gps)
  /\ LET a == run_in.gps[i]
         b == run_in.gps[i + 1]
         d == SegmentMeters(a, b)
     IN  IF ~TimeOrdered(a, b)
         THEN Reject("L189") /\ UNCHANGED <<total_distance_m, last_t, i, fault>>
         ELSE IF b.t < a.t
         THEN Panic("underflow") /\ UNCHANGED <<total_distance_m, last_t, i>>
         ELSE LET dt == b.t - a.t
              IN  /\ total_distance_m' = saturating_add(total_distance_m, U(d))
                  /\ IF dt = 0
                     THEN Reject("L193") /\ UNCHANGED <<last_t, i, fault>>
                     ELSE IF TooFast(d \div dt, run_in.max_speed_mps)
                     THEN Reject("L198") /\ UNCHANGED <<last_t, i, fault>>
                     ELSE /\ last_t' = b.t
                          /\ i' = i + 1
                          /\ Goto("walk")
                          /\ UNCHANGED fault
  /\ UNCHANGED <<run_in, signer_addr, blob_hash, elapsed, env>>

\* main.rs:203-207, after the loop
CheckElapsed ==
  /\ pc = "walk"
  /\ i > Windows(run_in.gps)
  /\ IF last_t < run_in.gps[1].t
     THEN Panic("underflow") /\ UNCHANGED elapsed
     ELSE /\ elapsed' = last_t - run_in.gps[1].t
          /\ UNCHANGED fault
          /\ IF elapsed' > run_in.max_elapsed_sec THEN Reject("L206") ELSE Goto("check_distance")
  /\ UNCHANGED <<run_in, signer_addr, blob_hash, total_distance_m, last_t, i, env>>

\* fault seeding: <= in place of <
CheckDistance_Inclusive ==
  /\ pc = "check_distance"
  /\ IF BLe(total_distance_m, U(MIN_DISTANCE_M)) THEN Reject("L210") ELSE Goto("build")
  /\ UNCHANGED <<run_in, locals, fault, env>>

\* main.rs:208-211
CheckDistance ==
  /\ pc = "check_distance"
  /\ IF BLt(total_distance_m, U(MIN_DISTANCE_M)) THEN Reject("L210") ELSE Goto("build")
  /\ UNCHANGED <<run_in, locals, fault, env>>

\* main.rs:214-220
BuildJournal ==
  /\ pc = "build"
  /\ journal' = journal \o (<<1>> \o to_be_bytes(elapsed_u32(elapsed)) \o blob_hash \o signer_addr)
  /\ pc' = "done"
  /\ exit' = "L221"
  /\ UNCHANGED <<run_in, locals, fault, env>>

\* the host runs the guest again on the same buffer; a fresh journal, and
\* nothing of the previous invocation is handed to the new one except what
\* the program's own memory would hold
Reinvoke ==
  /\ pc = "done"
  /\ runs < MaxRuns
  /\ runs' = runs + 1
  /\ prev_journal' = journal
  /\ journal' = <<>>
  /\ pc' = "start"
  /\ exit' = ""
  /\ mutation' = NoMutation
  /\ UNCHANGED <<input, run_in, locals, fault, sq>>

\* the host re-submits an accepted input with one bit of sig or pubkey flipped
ReinvokeMutated ==
  /\ pc = "done"
  /\ runs < MaxRuns
  /\ journal # <<>> /\ journal[1] = 1
  /\ \E m \in Mutations :
       /\ mutation' = m
       /\ input' = [input EXCEPT !.val = Mutate(input.val, m)]
  /\ runs' = runs + 1
  /\ prev_journal' = journal
  /\ journal' = <<>>
  /\ pc' = "start"
  /\ exit' = ""
  /\ UNCHANGED <<run_in, locals, fault, sq>>

Next ==
  \/ Decode
  \/ CheckLen
  \/ CheckTimes
  \/ VerifySignature
  \/ WalkInit
  \/ WalkStep
  \/ CheckElapsed
  \/ CheckDistance
  \/ BuildJournal
  \/ Reinvoke
  \/ ReinvokeMutated

Spec == Init /\ [][Next]_vars

\* ------------------------------------------------------------------------
\* isqrt_u128 run statement by statement (main.rs:87-100)
\* ------------------------------------------------------------------------
MaxSmall == 40

AllOnes == BSub(Zero, U(1))
PowerEdges ==
  UNION {{BSub(Shl(U(1), k), U(1)), Shl(U(1), k), BAdd(Shl(U(1), k), U(1))} :
           k \in {16, 31, 32, 33, 63, 64, 65, 96, 126, 127}}
SquareEdges ==
  UNION {{BSub(BMul(a, a), U(1)), BMul(a, a), BAdd(BMul(a, a), U(1))} :
           a \in {BSub(Shl(U(1), 32), U(1)), BAdd(Shl(U(1), 40), U(12345)),
                  Shl(U(1), 63), BSub(Shl(U(1), 64), U(1))}}
\* the arguments given to isqrt_u128
IsqrtInputs == {U(n) : n \in 0..MaxSmall} \cup PowerEdges \cup SquareEdges \cup {AllOnes}

main_vars == <<input, run_in, pc, exit, journal, signer_addr, blob_hash, total_distance_m,
               last_t, i, elapsed, fault, runs, prev_journal, mutation>>

\* a call: if x == 0 { return 0; } let mut r = 0; let mut bit = 1 << 126;
IsqrtCall ==
  /\ sq.pc = "idle"
  /\ \E x \in IsqrtInputs :
       sq' = IF x = Zero
             THEN [SqIdle EXCEPT !.pc = "ret", !.x = x]
             ELSE [SqIdle EXCEPT !.pc = "shrink", !.x = x, !.bit = Shl(U(1), TopBitShift)]
  /\ UNCHANGED main_vars

\* while bit > x { bit >>= 2; }
IsqrtShrinkStep ==
  /\ sq.pc = "shrink"
  /\ BLt(sq.x, sq.bit)
  /\ sq' = [sq EXCEPT !.bit = Shr(sq.bit, 2), !.shrinks = sq.shrinks + 1]
  /\ UNCHANGED main_vars

\* let mut n = x;
IsqrtShrunk ==
  /\ sq.pc = "shrink"
  /\ ~BLt(sq.x, sq.bit)
  /\ sq' = [sq EXCEPT !.n = sq.x, !.pc = "loop"]
  /\ UNCHANGED main_vars

\* one iteration of while bit != 0 { ... }
IsqrtIterate ==
  /\ sq.pc = "loop"
  /\ sq.bit # Zero
  /\ LET st == IsqrtBody([n |-> sq.n, r |-> sq.r, bit |-> sq.bit])
     IN  sq' = [sq EXCEPT !.n = st.n, !.r = st.r, !.bit = st.bit,
                          !.iters = sq.iters + 1,
                          !.overflow = sq.overflow \/ BLt(BAdd(sq.r, sq.bit), sq.r)]
  /\ UNCHANGED main_vars

\* the loop is left and r returned
IsqrtReturn ==
  /\ sq.pc = "loop"
  /\ sq.bit = Zero
  /\ sq' = [sq EXCEPT !.pc = "ret"]
  /\ UNCHANGED main_vars

\* back in the caller
IsqrtDone ==
  /\ sq.pc = "ret"
  /\ sq' = SqIdle
  /\ UNCHANGED main_vars

InitIsqrt == Init /\ ~input.decodes

NextIsqrt ==
  \/ IsqrtCall
  \/ IsqrtShrinkStep
  \/ IsqrtShrunk
  \/ IsqrtIterate
  \/ IsqrtReturn
  \/ IsqrtDone

SpecIsqrt == InitIsqrt /\ [][NextIsqrt]_vars

\* ------------------------------------------------------------------------
\* The acceptance conditions as the specification lists them, each stated
\* on the decoded input alone
\* ------------------------------------------------------------------------
Segments(v) == 1..(Len(v.gps) - 1)
SegDt(v, k) == v.gps[k + 1].t - v.gps[k].t
SegMeters(v, k) == SegmentMeters(v.gps[k], v.gps[k + 1])
SegSpeed(v, k) == SegMeters(v, k) \div SegDt(v, k)

RECURSIVE MetersUpTo(_, _)
MetersUpTo(v, k) == IF k = 0 THEN 0 ELSE MetersUpTo(v, k - 1) + SegMeters(v, k)
TotalMeters(v) == IF Len(v.gps) < 2 THEN 0 ELSE MetersUpTo(v, Len(v.gps) - 1)
ElapsedOf(v) == v.gps[Len(v.gps)].t - v.gps[1].t

HasTwoSamples(v) == Len(v.gps) >= 2
WindowOrdered(v) == v.start_time <= v.end_time
LengthsOk(v) == Len(v.sig) = 65 /\ Len(v.pubkey) = 65
SignatureValid(v) ==
  /\ LengthsOk(v)
  /\ SigParses(SubSeq(v.sig, 1, 64))
  /\ KeyParses(v.pubkey)
  /\ VerifyDigest(v.pubkey, Sha256(v.blob), SubSeq(v.sig, 1, 64))
TimesIncrease(v) == \A k \in Segments(v) : v.gps[k + 1].t > v.gps[k].t
SpeedsWithin(v) == \A k \in Segments(v) : SegDt(v, k) > 0 => SegSpeed(v, k) <= v.max_speed_mps
ElapsedWithin(v) == Len(v.gps) >= 1 => ElapsedOf(v) <= v.max_elapsed_sec
DistanceReached(v) == TotalMeters(v) >= 5000

AllChecks(v) ==
  /\ HasTwoSamples(v) /\ WindowOrdered(v) /\ LengthsOk(v) /\ SignatureValid(v)
  /\ TimesIncrease(v) /\ SpeedsWithin(v) /\ ElapsedWithin(v) /\ DistanceReached(v)

\* the same checks taken in the opposite order
AllChecksReversed(v) ==
  /\ DistanceReached(v) /\ ElapsedWithin(v) /\ SpeedsWithin(v) /\ TimesIncrease(v)
  /\ SignatureValid(v) /\ LengthsOk(v) /\ WindowOrdered(v) /\ HasTwoSamples(v)

\* big-endian bytes of a u32 (the times of the model stay far below 2^31,
\* where clamping to the u32 range changes nothing)
BE32(n) == <<(n \div 16777216) % 256, (n \div 65536) % 256, (n \div 256) % 256, n % 256>>

SignerOf(v) == SubSeq(Keccak256(Tail(v.pubkey)), 13, 32)
AcceptJournal(v) == <<1>> \o BE32(ElapsedOf(v)) \o Sha256(v.blob) \o SignerOf(v)
RejectJournal == <<0>>

ExpectedJournal(buf, ok) == IF buf.decodes /\ ok THEN AcceptJournal(buf.val) ELSE RejectJournal

Accepted == pc = "done" /\ journal # <<>> /\ journal[1] = 1

\* ------------------------------------------------------------------------
\* Properties
\* ------------------------------------------------------------------------

\* C1: the accepted journal (first byte 1) is written only if the buffer
\* decodes and all eight conditions hold; a trace of length 0 or 1, or with a
\* consecutive pair b.t <= a.t, is rejected whatever the other fields are.
C1_AcceptedOnlyIfAllConditions ==
  /\ (journal # <<>> /\ journal[1] = 1) => (input.decodes /\ AllChecks(input.val))
  /\ (pc = "done" /\ input.decodes /\ (~HasTwoSamples(input.val) \/ ~TimesIncrease(input.val)))
       => journal = RejectJournal

C1_Witness ==
  /\ Accepted
  /\ runs = 1
  /\ input.val.gps = GoodTrace
  /\ AllChecks(input.val)

\* C2: every failure cause ends the invocation with exactly the one byte 0,
\* nothing is written before the exit, and no invocation ends in a panic.
C2_RejectionIsOneZeroByte ==
  /\ fault = "none" /\ pc # "panic"
  /\ pc # "done" => journal = <<>>
  /\ (pc = "done" /\ exit # "L221") => journal = <<0>>
  /\ (pc = "done" /\ ~(input.decodes /\ AllChecks(input.val))) => (journal = <<0>> /\ Len(journal) = 1)

C2_Witness ==
  /\ pc = "done"
  /\ exit = "L159"
  /\ ~input.decodes
  /\ journal = <<0>>

\* C3: an accepting run writes exactly 57 bytes: 1, the big-endian u32 of
\* elapsed = last.t - first.t, SHA-256(blob), the 20-byte signer address.
C3_AcceptJournalLayout ==
  exit = "L221" =>
    /\ Len(journal) = 57
    /\ journal[1] = 1
    /\ SubSeq(journal, 2, 5) = BE32(ElapsedOf(input.val))
    /\ SubSeq(journal, 6, 37) = Sha256(input.val.blob)
    /\ SubSeq(journal, 38, 57) = verify_signature(input.val.blob, input.val.sig, input.val.pubkey)
    /\ Len(verify_signature(input.val.blob, input.val.sig, input.val.pubkey)) = 20

C3_Witness ==
  /\ exit = "L221"
  /\ Len(journal) = 57
  /\ elapsed = 398
  /\ SubSeq(journal, 2, 5) = <<0, 0, 1, 142>>

OthersThanSpeed(v) ==
  /\ HasTwoSamples(v) /\ WindowOrdered(v) /\ SignatureValid(v)
  /\ TimesIncrease(v) /\ ElapsedWithin(v) /\ DistanceReached(v)

\* C4: with every other condition met, a run whose fastest segment has
\* floor(d/dt) = max_speed_mps is accepted, and a run with a segment of
\* floor(d/dt) = max_speed_mps + 1 is rejected.
C4_SpeedBoundary ==
  (pc = "done" /\ input.decodes /\ OthersThanSpeed(input.val)) =>
    /\ (\E k \in Segments(input.val) : SegSpeed(input.val, k) = input.val.max_speed_mps + 1)
         => journal = RejectJournal
    /\ ( /\ \A k \in Segments(input.val) : SegSpeed(input.val, k) <= input.val.max_speed_mps
         /\ \E k \in Segments(input.val) : SegSpeed(input.val, k) = input.val.max_speed_mps )
         => journal = AcceptJournal(input.val)

C4_Witness ==
  /\ exit = "L198"
  /\ OthersThanSpeed(input.val)
  /\ SegSpeed(input.val, i) = input.val.max_speed_mps + 1

OthersThanDistance(v) ==
  /\ HasTwoSamples(v) /\ WindowOrdered(v) /\ SignatureValid(v)
  /\ TimesIncrease(v) /\ SpeedsWithin(v) /\ ElapsedWithin(v)

\* C5: with every other condition met, a total distance of exactly 4999
\* meters is rejected and one of exactly 5000 meters is accepted.
C5_DistanceBoundary ==
  (pc = "done" /\ input.decodes /\ OthersThanDistance(input.val)) =>
    /\ TotalMeters(input.val) = 4999 => journal = RejectJournal
    /\ TotalMeters(input.val) = 5000 => journal = AcceptJournal(input.val)

C5_Witness ==
  /\ exit = "L210"
  /\ total_distance_m = U(4999)
  /\ OthersThanDistance(input.val)

\* C6: the early-return pipeline writes what the conjunction of all checks,
\* taken in either order and each evaluated on the whole input, prescribes;
\* nothing is written after the first violated check.
C6_OrderIndependent ==
  /\ AllChecks(input.val) = AllChecksReversed(input.val)
  /\ pc = "done" =>
       /\ journal = ExpectedJournal(input, AllChecks(input.val))
       /\ journal = ExpectedJournal(input, AllChecksReversed(input.val))

C6_Witness ==
  /\ pc = "done"
  /\ exit = "L170"
  /\ ~SignatureValid(input.val)
  /\ ~DistanceReached(input.val)
  /\ journal = <<0>>

\* C7: a second invocation on the same input bytes writes the same output
\* as the first, whatever the first left behind.
C7_Deterministic ==
  (pc = "done" /\ runs > 1 /\ mutation = NoMutation) => journal = prev_journal

C7_Witness ==
  /\ pc = "done"
  /\ runs = 2
  /\ mutation = NoMutation
  /\ journal = prev_journal
  /\ Len(journal) = 57

\* C8 as stated: flipping any single bit of sig or pubkey of an accepted
\* input makes the next invocation reject.
C8_AnyBitFlipRejects ==
  (pc = "done" /\ mutation # NoMutation) => journal = RejectJournal

\* C8 amended: a flipped bit in the first 64 bytes of sig or anywhere in
\* pubkey makes the next invocation reject; a flipped bit in the 65th byte
\* of sig (the recovery id) leaves the accepted output unchanged.
C8_BitFlipOutsideRecoveryIdRejects ==
  (pc = "done" /\ mutation # NoMutation) =>
    IF mutation.field = "sig" /\ mutation.byte = 65
    THEN journal = prev_journal /\ journal[1] = 1
    ELSE journal = RejectJournal

C8_Witness ==
  /\ pc = "done"
  /\ mutation.field = "sig"
  /\ mutation.byte = 65
  /\ journal[1] = 1
  /\ input.val.sig # GoodSig

IsqrtExact(x, r) ==
  /\ BLe(BMul(r, r), x)
  /\ BLe(BSub(x, BMul(r, r)), BAdd(r, r))
  /\ Shr(r, 64) = Zero

\* C9: isqrt_u128(x) is the exact integer square root, r*r <= x < (r+1)^2
\* with r = 0 for x = 0, and its loops make at most 64 passes together
\* (bit starts at 2^126 and moves right by 2 per pass until it is 0).
C9_IsqrtExactAndBounded ==
  /\ sq.shrinks + sq.iters <= (8 * NLimbs) \div 2
  /\ ~sq.overflow
  /\ sq.pc = "loop" => (sq.bit = Zero <=> sq.shrinks + sq.iters = (8 * NLimbs) \div 2)
  /\ sq.pc = "ret" =>
       /\ IsqrtExact(sq.x, sq.r)
       /\ sq.r = isqrt_u128(sq.x)
       /\ sq.x = Zero => sq.r = Zero

C9_Witness ==
  /\ sq.pc = "ret"
  /\ sq.x = AllOnes
  /\ sq.iters = 64
  /\ sq.r = BSub(Shl(U(1), 64), U(1))

\* C10: the trace walk raises no arithmetic or indexing fault; the dt == 0
\* guard is never the check that fires; inside the loop last_t is the time
\* of the window's first sample, and after it last_t is the last sample's
\* time and lies strictly after gps[0].t.
C10_WalkNeverFaults ==
  /\ fault = "none"
  /\ exit # "L193"
  /\ pc = "walk" =>
       /\ Len(run_in.gps) >= 2
       /\ last_t = run_in.gps[i].t
       /\ i > Windows(run_in.gps) =>
            /\ last_t = run_in.gps[Len(run_in.gps)].t
            /\ last_t > run_in.gps[1].t
  /\ pc = "check_distance" => elapsed = ElapsedOf(run_in) /\ elapsed >= 1

C10_Witness ==
  /\ pc = "walk"
  /\ i > Windows(run_in.gps)
  /\ Len(run_in.gps) = 3
  /\ last_t = 398
  /\ total_distance_m = U(5000)

====
